---------------------------- MODULE Spec2Model ----------------------------
(***************************************************************************)
(* Filter-matching engine of Acquisition (src/src/filters.cpp).            *)
(*                                                                         *)
(* Text (QString / std::string) is a sequence of one-character strings.    *)
(* A double is modelled by the integer it holds: the texts typed into the  *)
(* numeric fields and the item values are integers, and QString::number    *)
(* of an integer-valued double parses back to an integer.                  *)
(* A result of Matches is "true", "false" or "throw" (std::stod raised).   *)
(***************************************************************************)
EXTENDS Integers, Sequences, FiniteSets, TLC

--------------------------------------------------------------------------
(* Bounds of the model *)

\* numbers typed into a numeric field are -MaxTyped..MaxTyped and BigTyped
MaxTyped == 1
\* a typed number with more than six significant digits
BigTyped == 1234567
\* item values seen by the MinMax filters are -1..MaxValue
MaxValue == 3
\* colour requirements given to Matches are 0..MaxNeed
MaxNeed == 2
\* numbers typed into a colour field of the edited form are 1..MaxTypedNeed
MaxTypedNeed == 1
\* per-colour socket totals of an item are 0..MaxCount
MaxCount == 2
\* an item lists at most MaxSockets sockets
MaxSockets == 3
\* item names have at most MaxNameLen characters, queries MaxQueryLen
MaxNameLen == 3
MaxQueryLen == 2

--------------------------------------------------------------------------
(* Text *)

DigitChars == <<"0", "1", "2", "3", "4", "5", "6", "7", "8", "9">>

IsDigit(c) == \E i \in 1..10 : DigitChars[i] = c

DigitVal(c) == (CHOOSE i \in 1..10 : DigitChars[i] = c) - 1

Abs(n) == IF n < 0 THEN -n ELSE n

RECURSIVE Pow10(_)
Pow10(k) == IF k = 0 THEN 1 ELSE 10 * Pow10(k - 1)

\* the decimal digits of n >= 0
RECURSIVE NatToText(_)
NatToText(n) ==
    IF n < 10 THEN <<DigitChars[n + 1]>>
    ELSE NatToText(n \div 10) \o <<DigitChars[(n % 10) + 1]>>

\* the value of a non-empty sequence of digits
RECURSIVE DigitsToNat(_)
DigitsToNat(s) ==
    IF Len(s) = 0 THEN 0
    ELSE 10 * DigitsToNat(SubSeq(s, 1, Len(s) - 1)) + DigitVal(s[Len(s)])

AllDigits(s) == \A i \in 1..Len(s) : IsDigit(s[i])

\* length of the longest prefix of s made of digits
RECURSIVE DigitPrefixLen(_)
DigitPrefixLen(s) ==
    IF Len(s) = 0 \/ ~IsDigit(s[1]) THEN 0 ELSE 1 + DigitPrefixLen(Tail(s))

\* index of the first c in s, 0 when there is none
FirstIndex(s, c) ==
    IF \E i \in 1..Len(s) : s[i] = c
    THEN CHOOSE i \in 1..Len(s) : s[i] = c /\ \A j \in 1..(i - 1) : s[j] # c
    ELSE 0

RECURSIVE StripTrailingZeros(_)
StripTrailingZeros(s) ==
    IF Len(s) > 0 /\ s[Len(s)] = "0"
    THEN StripTrailingZeros(SubSeq(s, 1, Len(s) - 1))
    ELSE s

\* all sequences over S of length at most n
RECURSIVE SeqsUpTo(_, _)
SeqsUpTo(S, n) ==
    IF n = 0 THEN {<<>>}
    ELSE LET R == SeqsUpTo(S, n - 1)
         IN  R \cup {Append(s, c) : s \in {r \in R : Len(r) = n - 1}, c \in S}

--------------------------------------------------------------------------
(* Conversions of the Qt and C++ libraries the filters call *)

\* the largest int
INT_MAX == 2^31 - 1

\* QString::number(int): the decimal digits, with a leading "-" when negative
QStringNumberInt(n) ==
    IF n < 0 THEN <<"-">> \o NatToText(-n) ELSE NatToText(n)

\* the exponent field of the 'g' format: a sign and at least two digits
ExponentText(e) ==
    <<"e", "+">> \o (IF e < 10 THEN <<"0">> ELSE <<>>) \o NatToText(e)

\* QString::number(double) is QString::number(n, 'g', 6): six significant
\* digits (round to nearest, ties to even), trailing zeros dropped, and the
\* exponent form as soon as the decimal exponent is 6 or more.
QStringNumberDouble(v) ==
    LET a    == Abs(v)
        sign == IF v < 0 THEN <<"-">> ELSE <<>>
    IN  IF a < Pow10(6) THEN sign \o NatToText(a)
        ELSE
          LET e0    == Len(NatToText(a)) - 1
              scale == Pow10(e0 - 5)
              q     == a \div scale
              r     == a % scale
              up    == (2 * r > scale) \/ (2 * r = scale /\ q % 2 = 1)
              m0    == IF up THEN q + 1 ELSE q
              m     == IF m0 = Pow10(6) THEN Pow10(5) ELSE m0
              e     == IF m0 = Pow10(6) THEN e0 + 1 ELSE e0
              ds    == NatToText(m)
              frac  == StripTrailingZeros(SubSeq(ds, 2, 6))
          IN  sign \o <<ds[1]>>
                   \o (IF Len(frac) = 0 THEN <<>> ELSE <<".">> \o frac)
                   \o ExponentText(e)

\* s without an optional leading sign
Unsigned(s) ==
    IF Len(s) > 0 /\ s[1] \in {"-", "+"} THEN Tail(s) ELSE s

IsNegative(s) == Len(s) > 0 /\ s[1] = "-"

\* QString::toDouble(&ok): the whole text must read
\*   [sign] digits [. digits] [e [sign] digits]
\* and the result is 0 when it does not.  Every text the model puts in a
\* field denotes an integer; for a text that denotes a fraction the value
\* here is truncated, and no field holds such a text.
ParseDouble(s) ==
    LET body  == Unsigned(s)
        ePos  == FirstIndex(body, "e")
        mant  == IF ePos = 0 THEN body ELSE SubSeq(body, 1, ePos - 1)
        expo  == IF ePos = 0 THEN <<>> ELSE SubSeq(body, ePos + 1, Len(body))
        expD  == Unsigned(expo)
        dot   == FirstIndex(mant, ".")
        ip    == IF dot = 0 THEN mant ELSE SubSeq(mant, 1, dot - 1)
        fp    == IF dot = 0 THEN <<>> ELSE SubSeq(mant, dot + 1, Len(mant))
        okM   == AllDigits(ip) /\ AllDigits(fp) /\ Len(ip) + Len(fp) > 0
        okE   == ePos = 0 \/ (Len(expD) > 0 /\ AllDigits(expD))
        ex    == IF ePos = 0 THEN 0
                 ELSE IF IsNegative(expo) THEN -DigitsToNat(expD)
                 ELSE DigitsToNat(expD)
        sh    == ex - Len(fp)
        mag   == IF sh >= 0 THEN DigitsToNat(ip \o fp) * Pow10(sh)
                 ELSE DigitsToNat(ip \o fp) \div Pow10(-sh)
    IN  IF ~(okM /\ okE) THEN [ok |-> FALSE, value |-> 0]
        ELSE [ok |-> TRUE, value |-> IF IsNegative(s) THEN -mag ELSE mag]

QStringToDouble(s) == ParseDouble(s).value

RECURSIVE StripLeadingZeros(_)
StripLeadingZeros(s) ==
    IF Len(s) > 1 /\ s[1] = "0" THEN StripLeadingZeros(Tail(s)) ELSE s

\* QString::toInt(&ok): the whole text must read [sign] digits and fit an
\* int; the result is 0 when it does not.
ParseInt(s) ==
    LET ds == StripLeadingZeros(Unsigned(s))
        hi == DigitsToNat(SubSeq(ds, 1, 9))
        lo == DigitVal(ds[10])
        ok == /\ Len(ds) > 0
              /\ AllDigits(ds)
              /\ \/ Len(ds) <= 9
                 \/ /\ Len(ds) = 10
                    /\ hi <= INT_MAX \div 10
                    /\ (hi < INT_MAX \div 10 \/ lo <= INT_MAX % 10)
        mag == IF Len(ds) <= 9 THEN DigitsToNat(ds) ELSE hi * 10 + lo
    IN  IF ~ok THEN [ok |-> FALSE, value |-> 0]
        ELSE [ok |-> TRUE, value |-> IF IsNegative(s) THEN -mag ELSE mag]

QStringToInt(s) == ParseInt(s).value

\* std::stod(): reads the longest numeric prefix, [sign] digits here (item
\* property texts of the model hold no ".", "e" or blank), and throws
\* std::invalid_argument when the text starts with no number.
StdStod(s) ==
    LET body == Unsigned(s)
        n    == DigitPrefixLen(body)
        mag  == DigitsToNat(SubSeq(body, 1, n))
    IN  IF n = 0 THEN [ok |-> FALSE, value |-> 0]
        ELSE [ok |-> TRUE, value |-> IF IsNegative(s) THEN -mag ELSE mag]

\* ::tolower on one character
ToLowerChar(c) ==
    CASE c = "W" -> "w"
      [] c = "R" -> "r"
      [] c = "A" -> "a"
      [] OTHER   -> c

\* std::transform(s.begin(), s.end(), s.begin(), ::tolower)
ToLower(s) == [i \in 1..Len(s) |-> ToLowerChar(s[i])]

\* std::string::find(q) != npos: q occurs in s at some position
Contains(s, q) ==
    \E i \in 0..(Len(s) - Len(q)) : SubSeq(s, i + 1, i + Len(q)) = q

--------------------------------------------------------------------------
(* Filters, FilterData and items *)

MinMaxKinds == {"SimpleProperty", "RequiredStat", "ItemMethod", "Sockets", "Links"}
ColorsKinds == {"SocketsColors", "LinksColors"}
Kinds == {"NameSearch"} \cup MinMaxKinds \cup ColorsKinds

\* the property_ of the MinMax filter under test
property_ == "Quality"

\* The widgets each filter owns; the text of a QLineEdit.
EmptyForm ==
    [textbox_ |-> <<>>, textbox_min_ |-> <<>>, textbox_max_ |-> <<>>,
     textbox_r_ |-> <<>>, textbox_g_ |-> <<>>, textbox_b_ |-> <<>>]

\* FilterData::FilterData: the query is empty and every flag is false; min,
\* max, r, g and b are left uninitialised, so they hold whatever (dmin, dmax,
\* ir, ig, ib) the memory held.
NewFilterData(dmin, dmax, ir, ig, ib) ==
    [text_query |-> <<>>,
     min_filled |-> FALSE, min |-> dmin,
     max_filled |-> FALSE, max |-> dmax,
     r_filled |-> FALSE, r |-> ir,
     g_filled |-> FALSE, g |-> ig,
     b_filled |-> FALSE, b |-> ib]

\* An item: what the filters read of it.  properties and requirements are
\* maps (functions on the keys present); func is the value of the injected
\* accessor of an ItemMethodFilter; json_sockets is item->json()["sockets"],
\* each socket a record [group, attr].
BlankItem ==
    [name |-> <<>>, properties |-> <<>>, requirements |-> <<>>, func |-> 0,
     sockets |-> 0, links |-> 0,
     sockets_r |-> 0, sockets_g |-> 0, sockets_b |-> 0, sockets_w |-> 0,
     json_sockets |-> <<>>]

\* map.count(key) != 0
HasKey(map, key) == key \in DOMAIN map

Bool(b) == IF b THEN "true" ELSE "false"

--------------------------------------------------------------------------
(* NameSearchFilter *)

NameSearchFilter_FromForm(form, data) ==
    [data EXCEPT !.text_query = form.textbox_]

NameSearchFilter_ToForm(form, data) ==
    [form EXCEPT !.textbox_ = data.text_query]

NameSearchFilter_ResetForm(form) ==
    [form EXCEPT !.textbox_ = <<>>]

\* variant: the name is searched as it is written
NameSearchFilter_MatchesNameAsIs(item, data) ==
    Bool(Contains(item.name, ToLower(data.text_query)))

NameSearchFilter_Matches(item, data) ==
    LET query == ToLower(data.text_query)
        name  == ToLower(item.name)
    IN  Bool(Contains(name, query))

--------------------------------------------------------------------------
(* MinMaxFilter and its variants *)

MinMaxFilter_FromForm(form, data) ==
    [data EXCEPT !.min_filled = Len(form.textbox_min_) > 0,
                 !.min        = QStringToDouble(form.textbox_min_),
                 !.max_filled = Len(form.textbox_max_) > 0,
                 !.max        = QStringToDouble(form.textbox_max_)]

MinMaxFilter_ToForm(form, data) ==
    [form EXCEPT !.textbox_min_ = IF data.min_filled
                                  THEN QStringNumberDouble(data.min)
                                  ELSE <<>>,
                 !.textbox_max_ = IF data.max_filled
                                  THEN QStringNumberDouble(data.max)
                                  ELSE <<>>]

MinMaxFilter_ResetForm(form) ==
    [form EXCEPT !.textbox_min_ = <<>>, !.textbox_max_ = <<>>]

SimplePropertyFilter_IsValuePresent(item) ==
    HasKey(item.properties, property_)

\* IsValuePresent of the variants that do not redefine it in filters.cpp:
\* the value is always present.
MinMaxFilter_IsValuePresent(item) == TRUE

IsValuePresent(kind, item) ==
    IF kind = "SimpleProperty" THEN SimplePropertyFilter_IsValuePresent(item)
    ELSE MinMaxFilter_IsValuePresent(item)

\* Each GetValue yields [ok, value]; ok is false when it throws.
SimplePropertyFilter_GetValue(item) ==
    StdStod(item.properties[property_])

RequiredStatFilter_GetValue(item) ==
    IF HasKey(item.requirements, property_)
    THEN [ok |-> TRUE, value |-> item.requirements[property_]]
    ELSE [ok |-> TRUE, value |-> 0]

ItemMethodFilter_GetValue(item) == [ok |-> TRUE, value |-> item.func]

SocketsFilter_GetValue(item) == [ok |-> TRUE, value |-> item.sockets]

LinksFilter_GetValue(item) == [ok |-> TRUE, value |-> item.links]

GetValue(kind, item) ==
    CASE kind = "SimpleProperty" -> SimplePropertyFilter_GetValue(item)
      [] kind = "RequiredStat"   -> RequiredStatFilter_GetValue(item)
      [] kind = "ItemMethod"     -> ItemMethodFilter_GetValue(item)
      [] kind = "Sockets"        -> SocketsFilter_GetValue(item)
      [] kind = "Links"          -> LinksFilter_GetValue(item)

\* variant: the bounds exclude the value they equal
MinMaxFilter_MatchesExclusive(kind, item, data) ==
    IF IsValuePresent(kind, item)
    THEN LET got == GetValue(kind, item)
         IN  IF ~got.ok THEN "throw"
             ELSE IF data.min_filled /\ data.min >= got.value THEN "false"
             ELSE IF data.max_filled /\ data.max <= got.value THEN "false"
             ELSE "true"
    ELSE Bool(~data.max_filled /\ ~data.min_filled)

\* variant: an absent value is refused only when max is filled
MinMaxFilter_MatchesAbsentMax(kind, item, data) ==
    IF IsValuePresent(kind, item)
    THEN LET got == GetValue(kind, item)
         IN  IF ~got.ok THEN "throw"
             ELSE IF data.min_filled /\ data.min > got.value THEN "false"
             ELSE IF data.max_filled /\ data.max < got.value THEN "false"
             ELSE "true"
    ELSE Bool(~data.max_filled)

MinMaxFilter_Matches(kind, item, data) ==
    IF IsValuePresent(kind, item)
    THEN LET got == GetValue(kind, item)
         IN  IF ~got.ok THEN "throw"
             ELSE IF data.min_filled /\ data.min > got.value THEN "false"
             ELSE IF data.max_filled /\ data.max < got.value THEN "false"
             ELSE "true"
    ELSE Bool(~data.max_filled /\ ~data.min_filled)

--------------------------------------------------------------------------
(* SocketsColorsFilter and LinksColorsFilter *)

Max(a, b) == IF a >= b THEN a ELSE b

SocketsColorsFilter_FromForm(form, data) ==
    [data EXCEPT !.r_filled = Len(form.textbox_r_) > 0,
                 !.g_filled = Len(form.textbox_g_) > 0,
                 !.b_filled = Len(form.textbox_b_) > 0,
                 !.r        = QStringToInt(form.textbox_r_),
                 !.g        = QStringToInt(form.textbox_g_),
                 !.b        = QStringToInt(form.textbox_b_)]

\* a field whose flag is false is left as it is
SocketsColorsFilter_ToForm(form, data) ==
    [form EXCEPT !.textbox_r_ = IF data.r_filled THEN QStringNumberInt(data.r)
                                ELSE @,
                 !.textbox_g_ = IF data.g_filled THEN QStringNumberInt(data.g)
                                ELSE @,
                 !.textbox_b_ = IF data.b_filled THEN QStringNumberInt(data.b)
                                ELSE @]

SocketsColorsFilter_ResetForm(form) ==
    [form EXCEPT !.textbox_r_ = <<>>, !.textbox_g_ = <<>>, !.textbox_b_ = <<>>]

\* variant: the blue requirement is left out of the deficit
CheckNoBlue(need_r, need_g, need_b, got_r, got_g, got_b, got_w) ==
    LET diff == Max(0, need_r - got_r) + Max(0, need_g - got_g)
    IN  diff <= got_w

Check(need_r, need_g, need_b, got_r, got_g, got_b, got_w) ==
    LET diff == Max(0, need_r - got_r) + Max(0, need_g - got_g)
                + Max(0, need_b - got_b)
    IN  diff <= got_w

\* variant: r is read whether or not it is filled
NeedReadsR(data) ==
    [r |-> data.r,
     g |-> IF data.g_filled THEN data.g ELSE 0,
     b |-> IF data.b_filled THEN data.b ELSE 0]

\* need_r, need_g, need_b: 0 unless the colour is filled
Need(data) ==
    [r |-> IF data.r_filled THEN data.r ELSE 0,
     g |-> IF data.g_filled THEN data.g ELSE 0,
     b |-> IF data.b_filled THEN data.b ELSE 0]

SocketsColorsFilter_Matches(item, data) ==
    IF ~data.r_filled /\ ~data.g_filled /\ ~data.b_filled THEN "true"
    ELSE LET need == Need(data)
         IN  Bool(Check(need.r, need.g, need.b, item.sockets_r,
                        item.sockets_g, item.sockets_b, item.sockets_w))

\* socket["attr"].asString()[0]: the first character, the terminating NUL
\* of an empty string
FirstChar(attr) == IF Len(attr) = 0 THEN "NUL" ELSE attr[1]

\* The locals of the loop of LinksColorsFilter::Matches before the first
\* socket; returned is set once the loop has executed `return true`.
ScanStart ==
    [current |-> 0, got_r |-> 0, got_g |-> 0, got_b |-> 0, got_w |-> 0,
     returned |-> FALSE]

\* One iteration of the loop body on `socket`.  At a change of group the
\* counts so far are checked, and got_r, got_g and got_b are set to 0;
\* got_w is not.
ScanSocket(st, socket, need) ==
    IF st.returned THEN st
    ELSE
      LET boundary == st.current # socket.group
          hit == boundary /\ Check(need.r, need.g, need.b,
                                   st.got_r, st.got_g, st.got_b, st.got_w)
          s1  == IF boundary
                 THEN [st EXCEPT !.got_r = 0, !.got_g = 0, !.got_b = 0]
                 ELSE st
          c   == FirstChar(socket.attr)
      IN  IF hit THEN [st EXCEPT !.returned = TRUE]
          ELSE [s1 EXCEPT !.current = socket.group,
                          !.got_r = IF c = "S" THEN @ + 1 ELSE @,
                          !.got_g = IF c = "D" THEN @ + 1 ELSE @,
                          !.got_b = IF c = "I" THEN @ + 1 ELSE @,
                          !.got_w = IF c = "G" THEN @ + 1 ELSE @]

\* the loop over the first n sockets
RECURSIVE ScanSockets(_, _, _)
ScanSockets(sockets, n, need) ==
    IF n = 0 THEN ScanStart
    ELSE ScanSocket(ScanSockets(sockets, n - 1, need), sockets[n], need)

\* variant: the counts left when the loop ends are not checked
LinksColorsFilter_MatchesNoFinal(item, data) ==
    IF ~data.r_filled /\ ~data.g_filled /\ ~data.b_filled THEN "true"
    ELSE LET need == Need(data)
             st   == ScanSockets(item.json_sockets, Len(item.json_sockets), need)
         IN  Bool(st.returned)

LinksColorsFilter_Matches(item, data) ==
    IF ~data.r_filled /\ ~data.g_filled /\ ~data.b_filled THEN "true"
    ELSE LET need == Need(data)
             st   == ScanSockets(item.json_sockets, Len(item.json_sockets), need)
         IN  IF st.returned THEN "true"
             ELSE Bool(Check(need.r, need.g, need.b,
                             st.got_r, st.got_g, st.got_b, st.got_w))

--------------------------------------------------------------------------
(* Dispatch through the virtual methods of Filter *)

Filter_FromForm(kind, form, data) ==
    CASE kind = "NameSearch"    -> NameSearchFilter_FromForm(form, data)
      [] kind \in MinMaxKinds   -> MinMaxFilter_FromForm(form, data)
      [] kind \in ColorsKinds   -> SocketsColorsFilter_FromForm(form, data)

Filter_ToForm(kind, form, data) ==
    CASE kind = "NameSearch"    -> NameSearchFilter_ToForm(form, data)
      [] kind \in MinMaxKinds   -> MinMaxFilter_ToForm(form, data)
      [] kind \in ColorsKinds   -> SocketsColorsFilter_ToForm(form, data)

Filter_ResetForm(kind, form) ==
    CASE kind = "NameSearch"    -> NameSearchFilter_ResetForm(form)
      [] kind \in MinMaxKinds   -> MinMaxFilter_ResetForm(form)
      [] kind \in ColorsKinds   -> SocketsColorsFilter_ResetForm(form)

Filter_Matches(kind, item, data) ==
    CASE kind = "NameSearch"    -> NameSearchFilter_Matches(item, data)
      [] kind \in MinMaxKinds   -> MinMaxFilter_Matches(kind, item, data)
      [] kind = "SocketsColors" -> SocketsColorsFilter_Matches(item, data)
      [] kind = "LinksColors"   -> LinksColorsFilter_Matches(item, data)

--------------------------------------------------------------------------
(* Inputs *)

\* a text that is no number
Malformed == <<"x">>

TypedNumbers == (-MaxTyped..MaxTyped) \cup {BigTyped}

\* what a user types into a min or max field
TypedDoubleTexts ==
    {<<>>, Malformed} \cup {QStringNumberInt(n) : n \in TypedNumbers}

\* what a user types into a colour field, the numbers among `needs`
TypedIntTexts(needs) ==
    {<<>>, Malformed} \cup {QStringNumberInt(n) : n \in needs}

NameChars == {"W", "w", "r"}

TypedQueries == SeqsUpTo(NameChars, MaxQueryLen)

\* the values an uninitialised double or int may hold
Indeterminate == {-BigTyped, BigTyped}

\* the FilterData a filter of this kind creates (Filter::CreateData); the
\* fields the kind never touches are written 0
NewData(kind) ==
    CASE kind = "NameSearch"  -> {NewFilterData(0, 0, 0, 0, 0)}
      [] kind \in MinMaxKinds ->
           {NewFilterData(a, b, 0, 0, 0) : a \in Indeterminate, b \in Indeterminate}
      [] kind \in ColorsKinds ->
           {NewFilterData(0, 0, a, b, c) :
               a \in Indeterminate, b \in Indeterminate, c \in Indeterminate}

\* the forms a user can have typed for a filter of this kind, the colour
\* numbers among `needs`
TypedForms(kind, needs) ==
    CASE kind = "NameSearch"  ->
           {[EmptyForm EXCEPT !.textbox_ = q] : q \in TypedQueries}
      [] kind \in MinMaxKinds ->
           {[EmptyForm EXCEPT !.textbox_min_ = a, !.textbox_max_ = b] :
               a \in TypedDoubleTexts, b \in TypedDoubleTexts}
      [] kind \in ColorsKinds ->
           {[EmptyForm EXCEPT !.textbox_r_ = a, !.textbox_g_ = b, !.textbox_b_ = c] :
               a \in TypedIntTexts(needs), b \in TypedIntTexts(needs),
               c \in TypedIntTexts(needs)}

\* the FilterData Matches is given: a new one, or one read from a typed form
MatchData(kind) ==
    NewData(kind) \cup
    {Filter_FromForm(kind, f, d) : f \in TypedForms(kind, 0..MaxNeed), d \in NewData(kind)}

PropertyTexts ==
    {QStringNumberInt(n) : n \in -1..MaxValue}
        \cup {<<>>, Malformed, <<"2">> \o Malformed}

SocketAttrs == {<<"S">>, <<"D">>, <<"I">>, <<"G">>, <<>>}

\* two group ids: enough for any pattern of boundaries, and for a first
\* group whose id is not the 0 the scan starts from
GroupIds == {0, 1}

Sockets == [group : GroupIds, attr : SocketAttrs]

\* the items Matches is given, with at most n sockets listed
Items(kind, n) ==
    CASE kind = "NameSearch" ->
           {[BlankItem EXCEPT !.name = s] : s \in SeqsUpTo(NameChars, MaxNameLen)}
      [] kind = "SimpleProperty" ->
           {BlankItem} \cup
           {[BlankItem EXCEPT !.properties = (property_ :> t)] : t \in PropertyTexts}
      [] kind = "RequiredStat" ->
           {BlankItem} \cup
           {[BlankItem EXCEPT !.requirements = (property_ :> v)] : v \in 0..MaxValue}
      [] kind = "ItemMethod" ->
           {[BlankItem EXCEPT !.func = v] : v \in -1..MaxValue}
      [] kind = "Sockets" ->
           {[BlankItem EXCEPT !.sockets = v] : v \in 0..MaxValue}
      [] kind = "Links" ->
           {[BlankItem EXCEPT !.links = v] : v \in 0..MaxValue}
      [] kind = "SocketsColors" ->
           {[BlankItem EXCEPT !.sockets_r = r, !.sockets_g = g,
                              !.sockets_b = b, !.sockets_w = w] :
               r \in 0..MaxCount, g \in 0..MaxCount,
               b \in 0..MaxCount, w \in 0..MaxCount}
      [] kind = "LinksColors" ->
           {[BlankItem EXCEPT !.json_sockets = ss] : ss \in SeqsUpTo(Sockets, n)}

--------------------------------------------------------------------------
(* State *)

VARIABLES
    filter,   \* the kind of the filter
    form,     \* the text of its widgets
    data,     \* its FilterData
    item,     \* the item last given to Matches
    result,   \* what that call returned: "true", "false", "throw"; "none"
    op,       \* the last operation
    prev,     \* the operation before a FromForm or ToForm
    before    \* form and data before a FromForm or ToForm

vars == <<filter, form, data, item, result, op, prev, before>>

None == [form |-> EmptyForm, data |-> NewFilterData(0, 0, 0, 0, 0)]

\* a filter and its FilterData as constructed
Init ==
    /\ filter \in Kinds
    /\ form = EmptyForm
    /\ data \in NewData(filter)
    /\ item = BlankItem
    /\ result = "none"
    /\ op = "new"
    /\ prev = "none"
    /\ before = None

\* the widgets of a filter of this kind
Fields(kind) ==
    CASE kind = "NameSearch"  -> {"textbox_"}
      [] kind \in MinMaxKinds -> {"textbox_min_", "textbox_max_"}
      [] kind \in ColorsKinds -> {"textbox_r_", "textbox_g_", "textbox_b_"}

TypedTexts(kind) ==
    CASE kind = "NameSearch"  -> TypedQueries
      [] kind \in MinMaxKinds -> TypedDoubleTexts
      [] kind \in ColorsKinds -> TypedIntTexts(1..MaxTypedNeed)

\* the user edits one widget (textEdited)
Edit ==
    /\ \E w \in Fields(filter), t \in TypedTexts(filter) :
          /\ form[w] # t
          /\ form' = [form EXCEPT ![w] = t]
    /\ item' = BlankItem /\ result' = "none"
    /\ op' = "Edit" /\ prev' = "none" /\ before' = None
    /\ UNCHANGED <<filter, data>>

FromForm ==
    /\ data' = Filter_FromForm(filter, form, data)
    /\ item' = BlankItem /\ result' = "none"
    /\ op' = "FromForm" /\ prev' = op
    /\ before' = [form |-> form, data |-> data]
    /\ UNCHANGED <<filter, form>>

ToForm ==
    /\ form' = Filter_ToForm(filter, form, data)
    /\ item' = BlankItem /\ result' = "none"
    /\ op' = "ToForm" /\ prev' = op
    /\ before' = [form |-> form, data |-> data]
    /\ UNCHANGED <<filter, data>>

ResetForm ==
    /\ form' = Filter_ResetForm(filter, form)
    /\ item' = BlankItem /\ result' = "none"
    /\ op' = "ResetForm" /\ prev' = "none" /\ before' = None
    /\ UNCHANGED <<filter, data>>

\* FilterData::Matches on an item with at most n sockets listed
MatchesUpTo(n) ==
    /\ \E it \in Items(filter, n) :
          /\ item' = it
          /\ result' = Filter_Matches(filter, it, data)
    /\ op' = "Matches" /\ prev' = "none" /\ before' = None
    /\ UNCHANGED <<filter, form, data>>

Matches == MatchesUpTo(MaxSockets)

\* Matches on the items with the shortest socket lists, for the runs in
\* which the form is edited too
MatchesFew == MatchesUpTo(MaxSockets - 2)

\* A filter, its form edited and read, its FilterData matched against items
Next == Edit \/ FromForm \/ ToForm \/ ResetForm \/ MatchesFew

Spec == Init /\ [][Next]_vars

\* Matches applied to each FilterData a form can give and each item
InitMatch ==
    /\ filter \in Kinds
    /\ form = EmptyForm
    /\ data \in MatchData(filter)
    /\ item = BlankItem
    /\ result = "none"
    /\ op = "new"
    /\ prev = "none"
    /\ before = None

\* one call of Matches on each FilterData
NextMatch == op = "new" /\ Matches

SpecMatch == InitMatch /\ [][NextMatch]_vars

--------------------------------------------------------------------------
(* Properties of Matches *)

Matched == op = "Matches"

\* C1: for a MinMax filter and an item whose value is present (and read),
\* Matches is true iff (min is not filled or min <= value) and (max is not
\* filled or max >= value); a bound equal to the value matches.
C1_RangeInclusive ==
    (Matched /\ filter \in MinMaxKinds /\ IsValuePresent(filter, item)
        /\ GetValue(filter, item).ok)
    => LET value == GetValue(filter, item).value
       IN  result = Bool(/\ (~data.min_filled \/ data.min <= value)
                         /\ (~data.max_filled \/ data.max >= value))

\* both bounds filled and equal to the value of the item, which matches
C1_Witness ==
    /\ Matched /\ filter = "SimpleProperty"
    /\ IsValuePresent(filter, item) /\ GetValue(filter, item).ok
    /\ data.min_filled /\ data.max_filled
    /\ data.min = GetValue(filter, item).value
    /\ data.max = GetValue(filter, item).value
    /\ result = "true"

\* C2: for a SimplePropertyFilter and an item without the property, Matches
\* is true iff neither min nor max is filled.
C2_AbsentValue ==
    (Matched /\ filter = "SimpleProperty" /\ ~HasKey(item.properties, property_))
    => result = Bool(~data.min_filled /\ ~data.max_filled)

\* the property is missing, only min is filled, and the item is refused
C2_Witness ==
    /\ Matched /\ filter = "SimpleProperty"
    /\ ~HasKey(item.properties, property_)
    /\ data.min_filled /\ ~data.max_filled
    /\ result = "false"

\* the link groups of a socket list: the maximal runs <<i, j>> of sockets
\* with one group id
Groups(ss) ==
    {g \in (1..Len(ss)) \X (1..Len(ss)) :
        /\ g[1] <= g[2]
        /\ \A k \in g[1]..g[2] : ss[k].group = ss[g[1]].group
        /\ (g[1] = 1 \/ ss[g[1] - 1].group # ss[g[1]].group)
        /\ (g[2] = Len(ss) \/ ss[g[2] + 1].group # ss[g[2]].group)}

\* the sockets of ss[i..j] whose attribute starts with c
CountOf(ss, i, j, c) ==
    Cardinality({k \in i..j : FirstChar(ss[k].attr) = c})

\* the counts of the group ss[i..j] alone satisfy the requirement
GroupSatisfies(ss, i, j, d) ==
    LET nr == IF d.r_filled THEN d.r ELSE 0
        ng == IF d.g_filled THEN d.g ELSE 0
        nb == IF d.b_filled THEN d.b ELSE 0
    IN  Max(0, nr - CountOf(ss, i, j, "S")) + Max(0, ng - CountOf(ss, i, j, "D"))
          + Max(0, nb - CountOf(ss, i, j, "I")) <= CountOf(ss, i, j, "G")

SomeColorFilled(d) == d.r_filled \/ d.g_filled \/ d.b_filled

\* C3: for an item with a socket and a filled requirement, LinksColorsFilter
\* matches iff some link group satisfies Check with its own counts, every
\* counter starting from zero in each group.
C3_PerGroupCounts ==
    (Matched /\ filter = "LinksColors" /\ SomeColorFilled(data)
        /\ Len(item.json_sockets) > 0)
    => result = Bool(\E g \in Groups(item.json_sockets) :
                        GroupSatisfies(item.json_sockets, g[1], g[2], data))

\* C4: if the counts of the last link group alone satisfy Check, then
\* LinksColorsFilter matches, though no boundary follows that group.
C4_FinalGroupEvaluated ==
    (Matched /\ filter = "LinksColors" /\ SomeColorFilled(data)
        /\ Len(item.json_sockets) > 0)
    => \A g \in Groups(item.json_sockets) :
          (g[2] = Len(item.json_sockets)
              /\ GroupSatisfies(item.json_sockets, g[1], g[2], data))
          => result = "true"

\* two groups, of which only the last satisfies the requirement
C4_Witness ==
    /\ Matched /\ filter = "LinksColors" /\ SomeColorFilled(data)
    /\ Cardinality(Groups(item.json_sockets)) = 2
    /\ \A g \in Groups(item.json_sockets) :
          GroupSatisfies(item.json_sockets, g[1], g[2], data)
              <=> g[2] = Len(item.json_sockets)
    /\ result = "true"

\* C5: SocketsColorsFilter matches when no colour is filled, and otherwise
\* iff the deficits of the filled colours against the totals of the item
\* sum to at most its white sockets.
C5_SocketsDeficit ==
    (Matched /\ filter = "SocketsColors")
    => LET nr == IF data.r_filled THEN data.r ELSE 0
           ng == IF data.g_filled THEN data.g ELSE 0
           nb == IF data.b_filled THEN data.b ELSE 0
       IN  result = IF ~SomeColorFilled(data) THEN "true"
                    ELSE Bool(Max(0, nr - item.sockets_r)
                              + Max(0, ng - item.sockets_g)
                              + Max(0, nb - item.sockets_b) <= item.sockets_w)

\* need (2, 0, 1) against r = 1, b = 0, w = 2: the deficit 2 is covered
C5_Witness ==
    /\ Matched /\ filter = "SocketsColors"
    /\ data.r_filled /\ data.r = 2 /\ data.b_filled /\ data.b = 1
    /\ item.sockets_r = 1 /\ item.sockets_b = 0 /\ item.sockets_w = 2
    /\ result = "true"

\* the FilterData that agree with d on every flag and every filled field
Agreeing(d) ==
    LET Vals == Indeterminate
    IN  {[d EXCEPT !.min = IF d.min_filled THEN @ ELSE a,
                   !.max = IF d.max_filled THEN @ ELSE b,
                   !.r = IF d.r_filled THEN @ ELSE a,
                   !.g = IF d.g_filled THEN @ ELSE b,
                   !.b = IF d.b_filled THEN @ ELSE c] :
            a \in Vals, b \in Vals, c \in Vals}

\* C6: the value of an unfilled field is never consulted: Matches returns
\* the same for any FilterData that agrees on the flags and filled fields.
C6_UnfilledIgnored ==
    Matched => \A d \in Agreeing(data) : Filter_Matches(filter, item, d) = result

\* red is not filled, green is, and the item is refused
C6_Witness ==
    /\ Matched /\ filter = "LinksColors"
    /\ ~data.r_filled /\ data.g_filled /\ ~data.b_filled
    /\ Len(item.json_sockets) > 0
    /\ result = "false"

\* two characters are the same letter, whatever their case
SameLetter(a, b) ==
    a = b \/ {a, b} \in {{"W", "w"}, {"R", "r"}, {"A", "a"}}

\* q occurs in s, letter for letter
OccursFolded(s, q) ==
    \E off \in 0..(Len(s) - Len(q)) :
        \A k \in 1..Len(q) : SameLetter(s[off + k], q[k])

\* the texts that differ from s in letter case only
Recased(s) ==
    {t \in SeqsUpTo(NameChars, Len(s)) :
        Len(t) = Len(s) /\ \A k \in 1..Len(s) : SameLetter(t[k], s[k])}

\* C7: NameSearchFilter matches iff the name contains the query, case
\* apart; the empty query matches every item; the case of the letters of
\* the name or of the query does not change the result.
C7_NameSearch ==
    (Matched /\ filter = "NameSearch")
    => /\ result = Bool(OccursFolded(item.name, data.text_query))
       /\ (data.text_query = <<>> => result = "true")
       /\ \A n \in Recased(item.name), q \in Recased(data.text_query) :
             NameSearchFilter_Matches([item EXCEPT !.name = n],
                                      [data EXCEPT !.text_query = q]) = result

\* the query is found in the name only when case is set aside
C7_Witness ==
    /\ Matched /\ filter = "NameSearch"
    /\ Len(data.text_query) = 2
    /\ ~Contains(item.name, data.text_query)
    /\ result = "true"

--------------------------------------------------------------------------
(* Properties of the form and data mapping *)

\* a numeric field holds nothing or a number
WellFormedDouble(t) == t = <<>> \/ ParseDouble(t).ok

WellFormedInt(t) == t = <<>> \/ ParseInt(t).ok

WellFormed(kind, f) ==
    CASE kind = "NameSearch"  -> TRUE
      [] kind \in MinMaxKinds ->
           WellFormedDouble(f.textbox_min_) /\ WellFormedDouble(f.textbox_max_)
      [] kind \in ColorsKinds ->
           /\ WellFormedInt(f.textbox_r_)
           /\ WellFormedInt(f.textbox_g_)
           /\ WellFormedInt(f.textbox_b_)

\* the field w of f and of g: both empty, or both filled with one value
SameField(kind, w, f, g) ==
    /\ (Len(f[w]) = 0) <=> (Len(g[w]) = 0)
    /\ CASE kind = "NameSearch"  -> f[w] = g[w]
         [] kind \in MinMaxKinds -> ParseDouble(f[w]) = ParseDouble(g[w])
         [] kind \in ColorsKinds -> ParseInt(f[w]) = ParseInt(g[w])

\* C8: FromForm and then ToForm on a form of well-formed fields leaves each
\* field filled or empty as it was and with the value it had, and a second
\* FromForm yields the FilterData of the first.
C8_FormDataForm ==
    (op = "ToForm" /\ prev = "FromForm" /\ WellFormed(filter, before.form))
    => /\ \A w \in Fields(filter) : SameField(filter, w, before.form, form)
       /\ Filter_FromForm(filter, form, data) = data

\* d and e have the same flags, and the same value in every filled field
SameFilled(d, e) ==
    /\ d.text_query = e.text_query
    /\ d.min_filled = e.min_filled /\ (d.min_filled => d.min = e.min)
    /\ d.max_filled = e.max_filled /\ (d.max_filled => d.max = e.max)
    /\ d.r_filled = e.r_filled /\ (d.r_filled => d.r = e.r)
    /\ d.g_filled = e.g_filled /\ (d.g_filled => d.g = e.g)
    /\ d.b_filled = e.b_filled /\ (d.b_filled => d.b = e.b)

\* the flag of the field the widget w shows
FilledFlag(d, w) ==
    CASE w = "textbox_"     -> Len(d.text_query) > 0
      [] w = "textbox_min_" -> d.min_filled
      [] w = "textbox_max_" -> d.max_filled
      [] w = "textbox_r_"   -> d.r_filled
      [] w = "textbox_g_"   -> d.g_filled
      [] w = "textbox_b_"   -> d.b_filled

\* C9: whatever the form held, ToForm(d) and then FromForm give the flags
\* of d and its filled values, and after ToForm(d) the widget of a field
\* that is not filled in d is empty.
C9_DataFormData ==
    /\ (op = "ToForm")
       => \A w \in Fields(filter) : ~FilledFlag(data, w) => form[w] = <<>>
    /\ (op = "FromForm" /\ prev = "ToForm") => SameFilled(before.data, data)

NothingEntered(d) ==
    /\ d.text_query = <<>>
    /\ ~d.min_filled /\ ~d.max_filled
    /\ ~d.r_filled /\ ~d.g_filled /\ ~d.b_filled

\* C10: with nothing entered (a new FilterData, or one read from a reset
\* form), Matches raises no error and is true for every item.
C10_VacuousTotal ==
    (Matched /\ NothingEntered(data)) => result = "true"

==========================================================================
